---- MODULE Spec2Model ----
(***************************************************************************)
(* Model of smartcran-logger (src/src/main.rs): an axum reverse proxy that *)
(* forwards every request to one upstream, strips hop-by-hop headers in    *)
(* both directions, classifies the request path (parse_cran) and emits one *)
(* structured log record per proxied request.                              *)
(*                                                                         *)
(* Strings the code inspects character by character (request paths and    *)
(* queries, header names) are sequences of chars, a char being its Unicode *)
(* code point; S(<<"/", "a">>) writes such a string by its spelling.       *)
(***************************************************************************)
EXTENDS Integers, Sequences, FiniteSets, TLC

\* ------------------------------------------------------------------------
\* Bounds of the model
\* ------------------------------------------------------------------------

\* free tokens between a path prefix and a path suffix (classifier inputs)
MaxMid == 2
\* header lines of a header collection handed to the sanitizer
MaxHdrLines == 3

\* ------------------------------------------------------------------------
\* Option<T>: None is the empty sequence, Some(x) the one-element sequence
\* ------------------------------------------------------------------------

None == <<>>
Some(x) == <<x>>

\* ------------------------------------------------------------------------
\* str: a sequence of chars (Unicode scalar values)
\* ------------------------------------------------------------------------

\* the printable ASCII characters from U+0020 to U+005F and from U+0061 to
\* U+007E; U+0060, the grave accent, is Grave
AsciiLow ==
  <<" ", "!", "\"", "#", "$", "%", "&", "'", "(", ")", "*", "+", ",", "-", ".", "/",
    "0", "1", "2", "3", "4", "5", "6", "7", "8", "9", ":", ";", "<", "=", ">", "?",
    "@", "A", "B", "C", "D", "E", "F", "G", "H", "I", "J", "K", "L", "M", "N", "O",
    "P", "Q", "R", "S", "T", "U", "V", "W", "X", "Y", "Z", "[", "\\", "]", "^", "_">>
AsciiHigh ==
  <<"a", "b", "c", "d", "e", "f", "g", "h", "i", "j", "k", "l", "m", "n", "o",
    "p", "q", "r", "s", "t", "u", "v", "w", "x", "y", "z", "{", "|", "}", "~">>
Grave == 96
\* the code point of a character written as a one-character string
Code(c) ==
  IF \E i \in 1..Len(AsciiLow) : AsciiLow[i] = c
  THEN 31 + (CHOOSE i \in 1..Len(AsciiLow) : AsciiLow[i] = c)
  ELSE Grave + (CHOOSE i \in 1..Len(AsciiHigh) : AsciiHigh[i] = c)
\* U+000A, the line feed
LineFeed == 10
\* characters the model tests for
Space == Code(" ")
Tilde == Code("~")
Percent == Code("%")
Hyphen == Code("-")
Dot == Code(".")
Slash == Code("/")
Backslash == Code("\\")
Underscore == Code("_")
Zero == Code("0")
UpperLetters == Code("A")..Code("Z")
LowerLetters == Code("a")..Code("z")
\* the string spelled by a sequence of one-character strings
S(str) == [i \in 1..Len(str) |-> Code(str[i])]

\* ------------------------------------------------------------------------
\* The regex crate, as far as the seven patterns use it
\* ------------------------------------------------------------------------

AsciiDigits == Code("0")..Code("9")
AsciiLetters == LowerLetters \cup UpperLetters
\* [A-Za-z0-9.]
PkgChars == AsciiLetters \cup AsciiDigits \cup {Dot}

\* the code point ranges of the general category Nd (decimal digit) in the
\* Unicode 16 tables of regex-syntax: 71 ranges, 760 code points
NdRanges ==
  {<<48, 57>>, <<1632, 1641>>, <<1776, 1785>>, <<1984, 1993>>,
   <<2406, 2415>>, <<2534, 2543>>, <<2662, 2671>>, <<2790, 2799>>,
   <<2918, 2927>>, <<3046, 3055>>, <<3174, 3183>>, <<3302, 3311>>,
   <<3430, 3439>>, <<3558, 3567>>, <<3664, 3673>>, <<3792, 3801>>,
   <<3872, 3881>>, <<4160, 4169>>, <<4240, 4249>>, <<6112, 6121>>,
   <<6160, 6169>>, <<6470, 6479>>, <<6608, 6617>>, <<6784, 6793>>,
   <<6800, 6809>>, <<6992, 7001>>, <<7088, 7097>>, <<7232, 7241>>,
   <<7248, 7257>>, <<42528, 42537>>, <<43216, 43225>>, <<43264, 43273>>,
   <<43472, 43481>>, <<43504, 43513>>, <<43600, 43609>>, <<44016, 44025>>,
   <<65296, 65305>>, <<66720, 66729>>, <<68912, 68921>>, <<68928, 68937>>,
   <<69734, 69743>>, <<69872, 69881>>, <<69942, 69951>>, <<70096, 70105>>,
   <<70384, 70393>>, <<70736, 70745>>, <<70864, 70873>>, <<71248, 71257>>,
   <<71360, 71369>>, <<71376, 71395>>, <<71472, 71481>>, <<71904, 71913>>,
   <<72016, 72025>>, <<72688, 72697>>, <<72784, 72793>>, <<73040, 73049>>,
   <<73120, 73129>>, <<73552, 73561>>, <<90416, 90425>>,
   <<92768, 92777>>, <<92864, 92873>>,
   <<93008, 93017>>, <<93552, 93561>>, <<118000, 118009>>,
   <<120782, 120831>>, <<123200, 123209>>, <<123632, 123641>>,
   <<124144, 124153>>, <<124401, 124410>>, <<125264, 125273>>,
   <<130032, 130041>>}

\* \d is Unicode-aware in the regex crate: any decimal digit (Nd)
UnicodeDigits(ch) == \E r \in NdRanges : r[1] <= ch /\ ch <= r[2]

\* character classes: \d, [A-Za-z0-9.], [^/], [^_], and . (no line feed)
InClass(cls, ch) ==
  CASE cls = "digit" -> ch \in AsciiDigits \/ UnicodeDigits(ch)
    [] cls = "pkgchar" -> ch \in PkgChars
    [] cls = "notslash" -> ch # Slash
    [] cls = "notunderscore" -> ch # Underscore
    [] cls = "any" -> ch # LineFeed

\* regex nodes
Bol == [t |-> "bol"]
Eol == [t |-> "eol"]
Lit(str) == [t |-> "lit", s |-> str]
Plus(cls) == [t |-> "plus", c |-> cls]
Star(cls) == [t |-> "star", c |-> cls]
Open(grp) == [t |-> "open", g |-> grp]
Close(grp) == [t |-> "close", g |-> grp]
Alt(x, y) == [t |-> "alt", a |-> x, b |-> y]

NoCaps == [grp \in 1..3 |-> <<0, 0>>]

HasPrefixAt(s, i, str) ==
  /\ i + Len(str) - 1 <= Len(s)
  /\ \A j \in 1..Len(str) : s[i + j - 1] = str[j]

RECURSIVE RunLen(_, _, _)
\* number of consecutive characters of class cls in s from position i
RunLen(s, i, cls) ==
  IF i <= Len(s) /\ InClass(cls, s[i]) THEN 1 + RunLen(s, i + 1, cls) ELSE 0

RECURSIVE Run(_, _, _, _, _)
RECURSIVE TryRep(_, _, _, _, _, _, _)
\* The backtracking (leftmost-first) match of nodes re[k..] against s from
\* position i: <<>> when there is none, else <<caps>> of the preferred match.
Run(re, k, s, i, caps) ==
  IF k > Len(re) THEN <<caps>>
  ELSE LET n == re[k] IN
    CASE n.t = "bol" -> IF i = 1 THEN Run(re, k + 1, s, i, caps) ELSE <<>>
      [] n.t = "eol" -> IF i = Len(s) + 1 THEN Run(re, k + 1, s, i, caps) ELSE <<>>
      [] n.t = "lit" -> IF HasPrefixAt(s, i, n.s)
                        THEN Run(re, k + 1, s, i + Len(n.s), caps) ELSE <<>>
      [] n.t = "plus" -> TryRep(re, k, s, i, RunLen(s, i, n.c), 1, caps)
      [] n.t = "star" -> TryRep(re, k, s, i, RunLen(s, i, n.c), 0, caps)
      [] n.t = "open" -> Run(re, k + 1, s, i, [caps EXCEPT ![n.g] = <<i, i>>])
      [] n.t = "close" -> Run(re, k + 1, s, i, [caps EXCEPT ![n.g] = <<caps[n.g][1], i>>])
      [] n.t = "alt" ->
           LET rest == SubSeq(re, k + 1, Len(re))
               first == Run(n.a \o rest, 1, s, i, caps)
           IN IF first # <<>> THEN first ELSE Run(n.b \o rest, 1, s, i, caps)

\* greedy repetition: the longest run first, then shorter ones, down to least
TryRep(re, k, s, i, len, least, caps) ==
  IF len < least THEN <<>>
  ELSE LET r == Run(re, k + 1, s, i + len, caps)
       IN IF r # <<>> THEN r ELSE TryRep(re, k, s, i, len - 1, least, caps)

RECURSIVE SearchFrom(_, _, _)
\* the leftmost start, from i on, at which re matches; a pattern that opens
\* with ^ can match from the first position only
SearchFrom(re, s, i) ==
  IF i > Len(s) + 1 \/ (i > 1 /\ re # <<>> /\ re[1] = Bol) THEN <<>>
  ELSE LET r == Run(re, 1, s, i, NoCaps)
       IN IF r # <<>> THEN r ELSE SearchFrom(re, s, i + 1)

\* Regex::captures: the leftmost match, <<>> (None) or <<caps>> (Some)
Captures(re, s) == SearchFrom(re, s, 1)
\* Regex::is_match
IsMatch(re, s) == Captures(re, s) # <<>>
\* c[grp] of a Captures: the text of group grp
Group(s, c, grp) == SubSeq(s, c[1][grp][1], c[1][grp][2] - 1)

\* ------------------------------------------------------------------------
\* The seven patterns (main.rs 32-38)
\* ------------------------------------------------------------------------

TarGz == S(<<".", "t", "a", "r", ".", "g", "z">>)
SrcContrib == S(<<"s", "r", "c", "/", "c", "o", "n", "t", "r", "i", "b">>)
ContribSeg == S(<<"/", "c", "o", "n", "t", "r", "i", "b", "/">>)
PackagesSeg == S(<<"/", "P", "A", "C", "K", "A", "G", "E", "S">>)

\* ^/src/contrib/([A-Za-z0-9.]+)_([^/]+)\.tar\.gz$
RE_SRC ==
  <<Bol, Lit(S(<<"/">>) \o SrcContrib \o S(<<"/">>)), Open(1), Plus("pkgchar"), Close(1),
    Lit(S(<<"_">>)), Open(2), Plus("notslash"), Close(2), Lit(TarGz), Eol>>

\* ^/src/contrib/Archive/([^/]+)/[^/]+_([^/]+)\.tar\.gz$
RE_ARCH ==
  <<Bol, Lit(S(<<"/">>) \o SrcContrib \o S(<<"/", "A", "r", "c", "h", "i", "v", "e", "/">>)),
    Open(1), Plus("notslash"), Close(1), Lit(S(<<"/">>)), Plus("notslash"),
    Lit(S(<<"_">>)), Open(2), Plus("notslash"), Close(2), Lit(TarGz), Eol>>

\* ^/bin/windows/contrib/(\d+\.\d+)/([^_]+)_([^/]+)\.zip$
RE_WIN ==
  <<Bol, Lit(S(<<"/", "b", "i", "n", "/", "w", "i", "n", "d", "o", "w", "s">>) \o ContribSeg),
    Open(1), Plus("digit"), Lit(S(<<".">>)), Plus("digit"), Close(1), Lit(S(<<"/">>)),
    Open(2), Plus("notunderscore"), Close(2), Lit(S(<<"_">>)),
    Open(3), Plus("notslash"), Close(3), Lit(S(<<".", "z", "i", "p">>)), Eol>>

\* ^/bin/macosx/.*/contrib/(\d+\.\d+)/([^_]+)_([^/]+)\.tgz$
RE_MAC ==
  <<Bol, Lit(S(<<"/", "b", "i", "n", "/", "m", "a", "c", "o", "s", "x", "/">>)),
    Star("any"), Lit(ContribSeg),
    Open(1), Plus("digit"), Lit(S(<<".">>)), Plus("digit"), Close(1), Lit(S(<<"/">>)),
    Open(2), Plus("notunderscore"), Close(2), Lit(S(<<"_">>)),
    Open(3), Plus("notslash"), Close(3), Lit(S(<<".", "t", "g", "z">>)), Eol>>

\* (src/contrib|bin/.*/contrib/\d+\.\d+), the group the index patterns share
IdxDir ==
  <<Open(1),
    Alt(<<Lit(SrcContrib)>>,
        <<Lit(S(<<"b", "i", "n", "/">>)), Star("any"), Lit(ContribSeg),
          Plus("digit"), Lit(S(<<".">>)), Plus("digit")>>),
    Close(1)>>

\* ^/(src/contrib|bin/.*/contrib/\d+\.\d+)/PACKAGES$, without its final $
RE_IDX_TXT_open == <<Bol, Lit(S(<<"/">>))>> \o IdxDir \o <<Lit(PackagesSeg)>>

\* ^/(src/contrib|bin/.*/contrib/\d+\.\d+)/PACKAGES$
RE_IDX_TXT == <<Bol, Lit(S(<<"/">>))>> \o IdxDir \o <<Lit(PackagesSeg), Eol>>

\* ^/(src/contrib|bin/.*/contrib/\d+\.\d+)/PACKAGES\.gz$
RE_IDX_GZ ==
  <<Bol, Lit(S(<<"/">>))>> \o IdxDir \o <<Lit(PackagesSeg \o S(<<".", "g", "z">>)), Eol>>

\* ^/(src/contrib|bin/.*/contrib/\d+\.\d+)/PACKAGES\.rds$
RE_IDX_RDS ==
  <<Bol, Lit(S(<<"/">>))>> \o IdxDir \o <<Lit(PackagesSeg \o S(<<".", "r", "d", "s">>)), Eol>>

\* ------------------------------------------------------------------------
\* CranInfo and parse_cran (main.rs 23-57)
\* ------------------------------------------------------------------------

\* CranInfo { artifact_type, ..Default::default() }
CranDefault(ty) ==
  [artifact_type |-> ty, package |-> None, version |-> None,
   r_minor |-> None, os |-> None]

Windows == S(<<"w", "i", "n", "d", "o", "w", "s">>)
\* the os of mac_tgz copied from the win_zip rule
Macos_as_windows == Windows

Macos == S(<<"m", "a", "c", "o", "s">>)

\* parse_index without the test of RE_IDX_GZ
parse_index_no_gz(path) ==
  IF IsMatch(RE_IDX_RDS, path) THEN CranDefault("index_rds")
  ELSE IF IsMatch(RE_IDX_TXT, path) THEN CranDefault("index_text")
  ELSE CranDefault("unknown")

\* the three index rules and the fallback (main.rs 53-56)
parse_index(path) ==
  IF IsMatch(RE_IDX_RDS, path) THEN CranDefault("index_rds")
  ELSE IF IsMatch(RE_IDX_GZ, path) THEN CranDefault("index_gz")
  ELSE IF IsMatch(RE_IDX_TXT, path) THEN CranDefault("index_text")
  ELSE CranDefault("unknown")

parse_cran(path) ==
  LET src == Captures(RE_SRC, path)
      arch == Captures(RE_ARCH, path)
      win == Captures(RE_WIN, path)
      mac == Captures(RE_MAC, path)
  IN
  IF src # <<>> THEN
    [CranDefault("src_tar") EXCEPT !.package = Some(Group(path, src, 1)),
                                   !.version = Some(Group(path, src, 2))]
  ELSE IF arch # <<>> THEN
    [CranDefault("archive_tar") EXCEPT !.package = Some(Group(path, arch, 1)),
                                       !.version = Some(Group(path, arch, 2))]
  ELSE IF win # <<>> THEN
    [artifact_type |-> "win_zip", r_minor |-> Some(Group(path, win, 1)),
     package |-> Some(Group(path, win, 2)), version |-> Some(Group(path, win, 3)),
     os |-> Some(Windows)]
  ELSE IF mac # <<>> THEN
    [artifact_type |-> "mac_tgz", r_minor |-> Some(Group(path, mac, 1)),
     package |-> Some(Group(path, mac, 2)), version |-> Some(Group(path, mac, 3)),
     os |-> Some(Macos)]
  ELSE parse_index(path)

\* ------------------------------------------------------------------------
\* http::HeaderMap: entries in insertion order, one per (lower-case) name,
\* each with its values in arrival order
\* ------------------------------------------------------------------------

\* HeaderName::from_bytes: a name is stored in lower case
Lower(name) ==
  [i \in 1..Len(name) |->
     IF name[i] \in UpperLetters THEN name[i] + 32 ELSE name[i]]

\* the header names the program and the messages of the model spell
CONNECTION == S(<<"c", "o", "n", "n", "e", "c", "t", "i", "o", "n">>)
PROXY_CONNECTION ==
  S(<<"p", "r", "o", "x", "y", "-", "c", "o",
      "n", "n", "e", "c", "t", "i", "o", "n">>)
KEEP_ALIVE == S(<<"k", "e", "e", "p", "-", "a", "l", "i", "v", "e">>)
TRANSFER_ENCODING ==
  S(<<"t", "r", "a", "n", "s", "f", "e", "r",
      "-", "e", "n", "c", "o", "d", "i", "n", "g">>)
TE == S(<<"t", "e">>)
UPGRADE == S(<<"u", "p", "g", "r", "a", "d", "e">>)
TRAILER == S(<<"t", "r", "a", "i", "l", "e", "r">>)
HOST == S(<<"h", "o", "s", "t">>)
USER_AGENT == S(<<"u", "s", "e", "r", "-", "a", "g", "e", "n", "t">>)
RANGE == S(<<"r", "a", "n", "g", "e">>)
ETAG == S(<<"e", "t", "a", "g">>)
CONTENT_LENGTH ==
  S(<<"c", "o", "n", "t", "e", "n", "t",
      "-", "l", "e", "n", "g", "t", "h">>)
CONTENT_TYPE ==
  S(<<"c", "o", "n", "t", "e", "n",
      "t", "-", "t", "y", "p", "e">>)
ACCEPT == S(<<"a", "c", "c", "e", "p", "t">>)
SET_COOKIE == S(<<"s", "e", "t", "-", "c", "o", "o", "k", "i", "e">>)
CACHE_CONTROL ==
  S(<<"c", "a", "c", "h", "e", "-",
      "c", "o", "n", "t", "r", "o", "l">>)
X_A == S(<<"x", "-", "a">>)
X_B == S(<<"x", "-", "b">>)

\* a name as a message may spell it: Capitalised-Words, UPPER CASE
Cap(name) ==
  [i \in 1..Len(name) |->
     IF (i = 1 \/ name[i - 1] = Hyphen) /\ name[i] \in LowerLetters
     THEN name[i] - 32 ELSE name[i]]
Upper(name) ==
  [i \in 1..Len(name) |->
     IF name[i] \in LowerLetters THEN name[i] - 32 ELSE name[i]]
\* ETag, as servers spell it
ETagWire == S(<<"E", "T", "a", "g">>)

\* header values that are not visible ASCII
OpaqueValues == {"bytes:c3a9"}
\* HeaderValue::to_str
to_str(v) == IF v \in OpaqueValues THEN None ELSE Some(v)

HasName(map, name) == \E i \in 1..Len(map) : map[i].name = name
IndexOf(map, name) == CHOOSE i \in 1..Len(map) : map[i].name = name

\* HeaderMap::append: another value for the name, a new entry when it is new
HeaderAppend(map, name, value) ==
  IF HasName(map, name)
  THEN [map EXCEPT ![IndexOf(map, name)].values = @ \o <<value>>]
  ELSE map \o <<[name |-> name, values |-> <<value>>]>>

\* HeaderMap::insert: the value replaces every value of the name
HeaderInsert(map, name, value) ==
  IF HasName(map, name)
  THEN [map EXCEPT ![IndexOf(map, name)].values = <<value>>]
  ELSE map \o <<[name |-> name, values |-> <<value>>]>>

\* HeaderMap::remove: the entry and all its values go, and the last entry
\* takes the place of the removed one (Vec::swap_remove)
HeaderRemove(map, name) ==
  IF ~HasName(map, name) THEN map
  ELSE LET i == IndexOf(map, name)
           n == Len(map)
       IN [j \in 1..(n - 1) |-> IF j = i THEN map[n] ELSE map[j]]

\* HeaderMap::get: the first value of the name
HeaderGet(map, name) ==
  IF HasName(map, name) THEN Some(map[IndexOf(map, name)].values[1]) ELSE None

RECURSIVE HeaderIter(_)
\* HeaderMap::iter: every (name, value) pair, entry by entry
HeaderIter(map) ==
  IF map = <<>> THEN <<>>
  ELSE [j \in 1..Len(map[1].values) |-> <<map[1].name, map[1].values[j]>>]
       \o HeaderIter(Tail(map))

RECURSIVE FromWire(_)
\* the header block of a message as the http stack hands it over: names
\* lower-cased, lines appended in wire order
FromWire(lines) ==
  IF lines = <<>> THEN <<>>
  ELSE LET n == Len(lines)
       IN HeaderAppend(FromWire(SubSeq(lines, 1, n - 1)), Lower(lines[n][1]), lines[n][2])

\* ------------------------------------------------------------------------
\* strip_hop_headers (main.rs 59-64)
\* ------------------------------------------------------------------------

HopHeaders ==
  <<CONNECTION, PROXY_CONNECTION, KEEP_ALIVE, TRANSFER_ENCODING,
    TE, UPGRADE, TRAILER, HOST>>

RECURSIVE StripFrom(_, _)
StripFrom(map, k) ==
  IF k > Len(HopHeaders) THEN map
  ELSE StripFrom(HeaderRemove(map, HopHeaders[k]), k + 1)

\* the loop of strip_hop_headers started one name late
strip_hop_headers_skip_first(map) == StripFrom(map, 2)

strip_hop_headers(map) == StripFrom(map, 1)

\* ------------------------------------------------------------------------
\* url::Url, as far as proxy() uses it (main.rs 110-112)
\* ------------------------------------------------------------------------

Slashes == {Slash, Backslash}

RECURSIVE SplitSlash(_)
\* the segments of a path without its leading "/"; in a URL of a special
\* scheme (http, https) a backslash separates segments too
SplitSlash(s) ==
  IF \E i \in 1..Len(s) : s[i] \in Slashes
  THEN LET i == CHOOSE k \in 1..Len(s) :
                  /\ s[k] \in Slashes
                  /\ \A j \in 1..(k - 1) : s[j] \notin Slashes
       IN <<SubSeq(s, 1, i - 1)>> \o SplitSlash(SubSeq(s, i + 1, Len(s)))
  ELSE <<s>>

SingleDot == {S(<<".">>), S(<<"%", "2", "e">>), S(<<"%", "2", "E">>)}
DoubleDot == {a \o b : a \in SingleDot, b \in SingleDot}

\* char::encode_utf8: the bytes of a char
Utf8(ch) ==
  IF ch < 128 THEN <<ch>>
  ELSE IF ch < 2048 THEN <<192 + (ch \div 64), 128 + (ch % 64)>>
  ELSE IF ch < 65536
  THEN <<224 + (ch \div 4096), 128 + ((ch \div 64) % 64), 128 + (ch % 64)>>
  ELSE <<240 + (ch \div 262144), 128 + ((ch \div 4096) % 64),
         128 + ((ch \div 64) % 64), 128 + (ch % 64)>>

\* an upper-case hexadecimal digit
HexDigit(n) == IF n < 10 THEN Zero + n ELSE Code("A") + n - 10

RECURSIVE PctBytes(_)
\* %XX for every byte
PctBytes(bytes) ==
  IF bytes = <<>> THEN <<>>
  ELSE <<Percent, HexDigit(Head(bytes) \div 16),
         HexDigit(Head(bytes) % 16)>>
       \o PctBytes(Tail(bytes))

\* utf8_percent_encode of one char that is in the encode set
PctEncode(ch) == PctBytes(Utf8(ch))

\* the CONTROLS set, and what every AsciiSet encodes besides its members:
\* C0 controls, DEL and every char outside ASCII
ControlOrNonAscii(ch) == ch < Space \/ ch > Tilde
\* tab, line feed and carriage return are dropped by the URL parser
TabOrNewline == {9, LineFeed, 13}
\* FRAGMENT and PATH of the url crate
FragmentSet == {Code(" "), Code("\""), Code("<"), Code(">"), Grave}
PathSet == FragmentSet \cup {Code("#"), Code("?"), Code("{"), Code("}")}
\* QUERY and SPECIAL_QUERY of the url crate
QuerySet == {Code(" "), Code("\""), Code("#"), Code("<"), Code(">")}
SpecialQuerySet == QuerySet \cup {Code("'")}

\* one char of a path segment through the path percent-encode set
EncodePathChar(ch) ==
  IF ch \in TabOrNewline THEN <<>>
  ELSE IF ControlOrNonAscii(ch) \/ ch \in PathSet THEN PctEncode(ch)
  ELSE <<ch>>

RECURSIVE EncodeSeg(_)
EncodeSeg(seg) ==
  IF seg = <<>> THEN <<>> ELSE EncodePathChar(Head(seg)) \o EncodeSeg(Tail(seg))

\* a segment that is a Windows drive letter: an ASCII letter, then : or |
\* (tested for every scheme, not for file alone)
IsWindowsDriveLetter(seg) ==
  /\ Len(seg) = 2
  /\ seg[1] \in AsciiLetters
  /\ seg[2] \in {Code(":"), Code("|")}

RECURSIVE PathSegments(_, _, _)
\* the URL parser's path state: "." is dropped, ".." drops the segment
\* before it unless that segment is a Windows drive letter, and either one
\* as the last segment leaves a trailing "/"
PathSegments(segs, k, acc) ==
  IF k > Len(segs) THEN acc
  ELSE LET seg == segs[k]
           last == (k = Len(segs))
           popped == IF acc = <<>> \/ IsWindowsDriveLetter(acc[Len(acc)]) THEN acc
                     ELSE SubSeq(acc, 1, Len(acc) - 1)
       IN IF seg \in DoubleDot
          THEN PathSegments(segs, k + 1, IF last THEN popped \o <<(<<>>)>> ELSE popped)
          ELSE IF seg \in SingleDot
          THEN PathSegments(segs, k + 1, IF last THEN acc \o <<(<<>>)>> ELSE acc)
          ELSE PathSegments(segs, k + 1, acc \o <<EncodeSeg(seg)>>)

RECURSIVE JoinSlash(_)
JoinSlash(segs) ==
  IF segs = <<>> THEN <<>> ELSE S(<<"/">>) \o Head(segs) \o JoinSlash(Tail(segs))

\* the inbound path joined to the path of the base
UrlSetPath_join(url, path) == [url EXCEPT !.path = @ \o path]

\* the parser's input: tab, line feed and carriage return are skipped as
\* the input is read, before segments are split and tested
RemoveTabOrNewline(s) == SelectSeq(s, LAMBDA ch : ch \notin TabOrNewline)

\* Url::set_path
UrlSetPath(url, path) ==
  LET input == RemoveTabOrNewline(path)
      rel == IF input # <<>> /\ Head(input) \in Slashes THEN Tail(input) ELSE input
      segs == PathSegments(SplitSlash(rel), 1, <<>>)
  IN [url EXCEPT !.path = IF segs = <<>> THEN S(<<"/">>) ELSE JoinSlash(segs)]

\* one char of a query through the query percent-encode set of a special
\* scheme (http, https)
EncodeQueryChar(ch) ==
  IF ch \in TabOrNewline THEN <<>>
  ELSE IF ControlOrNonAscii(ch) \/ ch \in SpecialQuerySet THEN PctEncode(ch)
  ELSE <<ch>>

RECURSIVE EncodeQuery(_)
EncodeQuery(q) ==
  IF q = <<>> THEN <<>> ELSE EncodeQueryChar(Head(q)) \o EncodeQuery(Tail(q))

\* Url::set_query
UrlSetQuery(url, query) ==
  [url EXCEPT !.query = IF query = None THEN None ELSE Some(EncodeQuery(query[1]))]

\* ------------------------------------------------------------------------
\* State
\* ------------------------------------------------------------------------

VARIABLES
  upstream,    \* AppState.upstream, the configured base URL
  pc,          \* per request: where its handler is
  req,         \* per request: the inbound request as the router receives it
  headers,     \* per request: proxy()'s local `headers`
  outReq,      \* per request: the reqwest request being built, then sent
  bodyPolled,  \* per request: whether the inbound body was ever polled
  meta,        \* per request: started, ua, range, path, derived (134-138)
  sends,       \* per request: how many times req.send() was called
  sendResult,  \* per request: what send() returned: Ok(response) or Err(error)
  resp,        \* per request: what the handler returned to the client
  stream,      \* per request: the relayed body: chunks delivered and state
  log,         \* the events handed to tracing, in order of emission
  now,         \* the clock (ms)
  cranPath,    \* classifier harness: the input path
  cranOut,     \* classifier harness: None, then Some(parse_cran(cranPath))
  hdrWire,     \* sanitizer harness: the input header block, as lines on the wire
  hdrOut       \* sanitizer harness: None, then Some(sanitized collection)

vars ==
  <<upstream, pc, req, headers, outReq, bodyPolled, meta, sends, sendResult, resp,
    stream, log, now, cranPath, cranOut, hdrWire, hdrOut>>

harnessVars == <<cranPath, cranOut, hdrWire, hdrOut>>

\* requests in flight at once
NumReqs == 2
Reqs == 1..NumReqs
\* the clock advances by at most this much while one send is awaited
MaxDelay == 1

\* ------------------------------------------------------------------------
\* Inputs of the pipeline
\* ------------------------------------------------------------------------

Methods == {"GET", "HEAD", "POST"}

PHealthz == S(<<"/", "h", "e", "a", "l", "t", "h", "z">>)
PSrcTar ==
  S(<<"/", "s", "r", "c", "/", "c", "o", "n", "t", "r", "i", "b", "/",
    "a", "_", "1", ".", "t", "a", "r", ".", "g", "z">>)
\* a ".." after a segment, a ".." after a drive letter, a char to encode
PDots ==
  S(<<"/", "a", "/", ".", ".", "/", "C", ":", "/", ".", ".", "/", "x", "{">>)
ReqPaths == {PHealthz, PSrcTar, PDots}

\* U+00E9, e with acute accent
EAcute == 233
\* no query, and a=' followed by U+00E9
ReqQueries == {None, Some(S(<<"a", "=", "'">>) \o <<EAcute>>)}

\* header blocks of an inbound request, as lines on the wire
ReqHeaderBlocks ==
  {<<>>,
   <<<<Cap(HOST), "proxy.test">>, <<Cap(USER_AGENT), "R/4.3">>, <<ACCEPT, "*/*">>>>,
   <<<<Cap(HOST), "proxy.test">>, <<ACCEPT, "a">>, <<Cap(RANGE), "bytes=0-9">>,
     <<Cap(CONNECTION), "keep-alive">>, <<ACCEPT, "b">>>>,
   <<<<Cap(USER_AGENT), "bytes:c3a9">>, <<Upper(TE), "trailers">>>>}

\* inbound bodies: the chunks that arrive, then the end or an error
ReqBodies ==
  {[chunks |-> <<>>, err |-> FALSE],
   [chunks |-> <<<<1, 2>>, <<3>>>>, err |-> FALSE],
   [chunks |-> <<<<1>>>>, err |-> TRUE]}

OK == 200
BAD_REQUEST == 400
BAD_GATEWAY == 502
\* status codes an upstream answers with
UpStatuses == {OK, 404, BAD_REQUEST, BAD_GATEWAY}

\* header blocks of an upstream response
UpHeaderBlocks ==
  {<<>>,
   <<<<ETagWire, "\"v1\"">>, <<Cap(CONTENT_LENGTH), "3">>, <<Cap(CONNECTION), "close">>>>,
   <<<<Cap(SET_COOKIE), "a=1">>, <<CACHE_CONTROL, "no-cache">>, <<Cap(SET_COOKIE), "b=2">>>>,
   <<<<TRANSFER_ENCODING, "chunked">>, <<ETagWire, "bytes:c3a9">>, <<X_A, "1">>,
     <<X_B, "2">>>>}

\* upstream bodies: the chunks that arrive, then the end or an error
UpBodies ==
  {[chunks |-> <<>>, err |-> FALSE],
   [chunks |-> <<<<7>>, <<8, 9>>>>, err |-> FALSE],
   [chunks |-> <<<<7>>>>, err |-> TRUE]}

\* transport-level failures of send(): connection refused, DNS, TLS, and
\* the connect and overall timeouts of the client (main.rs 81-82)
SendErrors == {"connect_refused", "dns", "tls", "connect_timeout", "timeout"}

DefaultUpstream ==
  [scheme |-> "https",
   host |-> S(<<"c", "l", "o", "u", "d", ".", "r", "-", "p", "r", "o", "j", "e", "c", "t",
              ".", "o", "r", "g">>),
   port |-> None, path |-> S(<<"/">>), query |-> None]
\* UPSTREAM_BASE=http://mirror.test:8080/cran/?k
OtherUpstream ==
  [scheme |-> "http",
   host |-> S(<<"m", "i", "r", "r", "o", "r", ".", "t", "e", "s", "t">>),
   port |-> Some(8080), path |-> S(<<"/", "c", "r", "a", "n", "/">>),
   query |-> Some(S(<<"k">>))]
Upstreams == {DefaultUpstream, OtherUpstream}

\* ------------------------------------------------------------------------
\* Helpers of the handler
\* ------------------------------------------------------------------------

RECURSIVE Concat(_)
\* body.collect().await?.to_bytes(): the chunks in order, as one buffer
Concat(chunks) == IF chunks = <<>> THEN <<>> ELSE Head(chunks) \o Concat(Tail(chunks))

\* headers.get(name).and_then(|v| v.to_str().ok()).unwrap_or("-")
HeaderText(map, name) ==
  LET v == HeaderGet(map, name)
  IN IF v = None THEN "-"
     ELSE IF to_str(v[1]) = None THEN "-" ELSE to_str(v[1])[1]

JsonOpt(o) == IF o = None THEN [json |-> "null"] ELSE [json |-> "string", v |-> o[1]]
\* serde_json::to_string(&derived): the five fields in declaration order
ToJson(info) ==
  <<<<"artifact_type", [json |-> "string", v |-> info.artifact_type]>>,
    <<"package", JsonOpt(info.package)>>,
    <<"version", JsonOpt(info.version)>>,
    <<"r_minor", JsonOpt(info.r_minor)>>,
    <<"os", JsonOpt(info.os)>>>>

RECURSIVE InsertAll(_, _)
\* for (k, v) in resp.headers().iter() { out_headers.insert(k, v.clone()); }
InsertAll(pairs, out) ==
  IF pairs = <<>> THEN out
  ELSE InsertAll(Tail(pairs), HeaderInsert(out, Head(pairs)[1], Head(pairs)[2]))

\* the response headers copied and not sanitized
OutHeaders_unstripped(upHeaders) == InsertAll(HeaderIter(upHeaders), <<>>)

\* the response headers built for the client (main.rs 170-175)
OutHeaders(upHeaders) == strip_hop_headers(InsertAll(HeaderIter(upHeaders), <<>>))

\* every upstream error status turned into 502
ResponseStatus_errors_as_502(st) == IF st >= BAD_REQUEST THEN BAD_GATEWAY ELSE st

\* 168: Response::builder().status(status)
ResponseStatus(st) == st

\* (StatusCode, String) as a response: the status and the text
TextResponse(status, text) ==
  [status |-> status,
   headers |-> <<[name |-> CONTENT_TYPE, values |-> <<"text/plain; charset=utf-8">>]>>,
   body |-> [kind |-> "full", text |-> text]]

\* the event of info!(target: "cran", ..., "proxied") (main.rs 154-165)
ProxiedRecord(r, status, m, etag, clen, t) ==
  [req |-> r, level |-> "INFO", target |-> "cran", message |-> "proxied",
   path |-> m.path, status |-> status, latency_ms |-> t - m.started,
   ua |-> m.ua, range |-> m.range, etag_out |-> etag, content_length |-> clen,
   derived |-> ToJson(m.derived)]

\* the failure logged as a proxied request
UpstreamErrorRecord_as_proxied(r, e, m) ==
  [req |-> r, level |-> "INFO", target |-> "cran", message |-> "proxied",
   error |-> e, path |-> m.path, ua |-> m.ua]

\* the event of tracing::warn!(error, path, ua, "upstream_error") (main.rs 144)
UpstreamErrorRecord(r, e, m) ==
  [req |-> r, level |-> "WARN", message |-> "upstream_error",
   error |-> e, path |-> m.path, ua |-> m.ua]

\* ------------------------------------------------------------------------
\* Init
\* ------------------------------------------------------------------------

\* the default of LISTEN_ADDR (main.rs 94)
ListenAddr == "0.0.0.0:8080"

\* 97: the event of tracing::info!(%addr, "listening"), emitted by main
\* before the first request is served; req is the request whose handler
\* emitted an event, 0 for main
ListeningRecord ==
  [req |-> 0, level |-> "INFO", message |-> "listening", addr |-> ListenAddr]

PipelineInit ==
  /\ upstream \in Upstreams
  /\ pc = [r \in Reqs |-> "idle"]
  /\ req = [r \in Reqs |-> None]
  /\ headers = [r \in Reqs |-> None]
  /\ outReq = [r \in Reqs |-> None]
  /\ bodyPolled = [r \in Reqs |-> FALSE]
  /\ meta = [r \in Reqs |-> None]
  /\ sends = [r \in Reqs |-> 0]
  /\ sendResult = [r \in Reqs |-> None]
  /\ resp = [r \in Reqs |-> None]
  /\ stream = [r \in Reqs |-> None]
  /\ log = <<ListeningRecord>>
  /\ now = 0

HarnessIdle ==
  /\ cranPath = <<>>
  /\ cranOut = None
  /\ hdrWire = <<>>
  /\ hdrOut = None

Init == PipelineInit /\ HarnessIdle

\* ------------------------------------------------------------------------
\* The router (main.rs 88-91) and the liveness handler
\* ------------------------------------------------------------------------

\* no path is routed to the liveness handler
IsLiveness_never(path) == FALSE

\* 89: the route "/healthz" matches this path and no other
IsLiveness(path) == path = PHealthz

\* a request arrives: method, path, query, header block, body
Arrive(r, m, p, q, wire, b) ==
  /\ pc[r] = "idle"
  /\ req' = [req EXCEPT ![r] =
       Some([method |-> m, path |-> p, query |-> q, headers |-> FromWire(wire), body |-> b])]
  /\ pc' = [pc EXCEPT ![r] = "routing"]
  /\ UNCHANGED <<upstream, headers, outReq, bodyPolled, meta, sends, sendResult, resp,
                 stream, log, now, harnessVars>>

\* .route("/healthz", any(|| async { "ok" })): any method, the fixed body
Healthz(r) ==
  /\ pc[r] = "routing"
  /\ IsLiveness(req[r][1].path)
  /\ resp' = [resp EXCEPT ![r] = Some(TextResponse(OK, "ok"))]
  /\ pc' = [pc EXCEPT ![r] = "done"]
  /\ UNCHANGED <<upstream, req, headers, outReq, bodyPolled, meta, sends, sendResult,
                 stream, log, now, harnessVars>>

\* ------------------------------------------------------------------------
\* proxy (main.rs 102-182), the fallback handler
\* ------------------------------------------------------------------------

\* the target URL built in the shared base and not in a clone of it
ProxyStart_in_place(r) ==
  /\ pc[r] = "routing"
  /\ ~IsLiveness(req[r][1].path)
  /\ LET q == req[r][1]
         target == UrlSetQuery(UrlSetPath(upstream, q.path), q.query)
         stripped == strip_hop_headers(q.headers)
     IN /\ upstream' = target
        /\ headers' = [headers EXCEPT ![r] = Some(stripped)]
        /\ outReq' = [outReq EXCEPT ![r] =
             Some([method |-> q.method, url |-> target, headers |-> stripped,
                   body |-> None])]
  /\ pc' = [pc EXCEPT ![r] = "body"]
  /\ UNCHANGED <<req, bodyPolled, meta, sends, sendResult, resp, stream, log, now,
                 harnessVars>>

\* 110-120: the target URL, the sanitized headers, the request builder
ProxyStart(r) ==
  /\ pc[r] = "routing"
  /\ ~IsLiveness(req[r][1].path)
  /\ LET q == req[r][1]
         target == UrlSetQuery(UrlSetPath(upstream, q.path), q.query)
         stripped == strip_hop_headers(q.headers)
     IN /\ headers' = [headers EXCEPT ![r] = Some(stripped)]
        /\ outReq' = [outReq EXCEPT ![r] =
             Some([method |-> q.method, url |-> target, headers |-> stripped,
                   body |-> None])]
  /\ pc' = [pc EXCEPT ![r] = "body"]
  /\ UNCHANGED <<upstream, req, bodyPolled, meta, sends, sendResult, resp, stream, log,
                 now, harnessVars>>

\* the test without HEAD
IsGetOrHead_get_only(m) == m = "GET"

\* 123: matches!(method, Method::GET | Method::HEAD)
IsGetOrHead(m) == m \in {"GET", "HEAD"}

\* 123-127: the method is not GET or HEAD: body.collect() is polled for the
\* first time, and the handler waits at the await for the body to end
CollectStart(r) ==
  /\ pc[r] = "body"
  /\ ~IsGetOrHead(req[r][1].method)
  /\ bodyPolled' = [bodyPolled EXCEPT ![r] = TRUE]
  /\ pc' = [pc EXCEPT ![r] = "collect"]
  /\ UNCHANGED <<upstream, req, headers, outReq, meta, sends, sendResult, resp, stream,
                 log, now, harnessVars>>

\* the 400 returned after the timer was started and the path classified
BodyError_timed(r) ==
  /\ pc[r] = "collect"
  /\ req[r][1].body.err
  /\ meta' = [meta EXCEPT ![r] =
       Some([started |-> now,
             ua |-> HeaderText(headers[r][1], USER_AGENT),
             range |-> HeaderText(headers[r][1], RANGE),
             path |-> req[r][1].path,
             derived |-> parse_cran(req[r][1].path)])]
  /\ resp' = [resp EXCEPT ![r] = Some(TextResponse(BAD_REQUEST, "invalid request body"))]
  /\ pc' = [pc EXCEPT ![r] = "done"]
  /\ UNCHANGED <<upstream, req, headers, outReq, bodyPolled, sends, sendResult, stream,
                 log, now, harnessVars>>

\* 127-128: the body being collected fails: the await yields the error, the
\* `?` returns 400 and the handler ends
BodyError(r) ==
  /\ pc[r] = "collect"
  /\ req[r][1].body.err
  /\ resp' = [resp EXCEPT ![r] = Some(TextResponse(BAD_REQUEST, "invalid request body"))]
  /\ pc' = [pc EXCEPT ![r] = "done"]
  /\ UNCHANGED <<upstream, req, headers, outReq, bodyPolled, meta, sends, sendResult,
                 stream, log, now, harnessVars>>

\* 123-124, 127-138: for GET and HEAD the builder is kept without a body;
\* for another method the body being collected ends and its bytes become
\* the body of the request; then the timer and the metadata
Prepare(r) ==
  /\ \/ pc[r] = "body" /\ IsGetOrHead(req[r][1].method)
     \/ pc[r] = "collect" /\ ~req[r][1].body.err
  /\ LET q == req[r][1]
         skip == IsGetOrHead(q.method)
     IN /\ outReq' = [outReq EXCEPT ![r][1].body =
             IF skip THEN None ELSE Some(Concat(q.body.chunks))]
        /\ meta' = [meta EXCEPT ![r] =
             Some([started |-> now,
                   ua |-> HeaderText(headers[r][1], USER_AGENT),
                   range |-> HeaderText(headers[r][1], RANGE),
                   path |-> q.path,
                   derived |-> parse_cran(q.path)])]
  /\ pc' = [pc EXCEPT ![r] = "send"]
  /\ UNCHANGED <<upstream, req, headers, bodyPolled, sends, sendResult, resp, stream,
                 log, now, harnessVars>>

\* a send that does not wait for the inbound body
Dispatch_early(r) ==
  /\ pc[r] \in {"collect", "send"}
  /\ sends' = [sends EXCEPT ![r] = @ + 1]
  /\ pc' = [pc EXCEPT ![r] = "await"]
  /\ UNCHANGED <<upstream, req, headers, outReq, bodyPolled, meta, sendResult, resp,
                 stream, log, now, harnessVars>>

\* 141: req.send() is called; the handler awaits the outcome
Dispatch(r) ==
  /\ pc[r] = "send"
  /\ sends' = [sends EXCEPT ![r] = @ + 1]
  /\ pc' = [pc EXCEPT ![r] = "await"]
  /\ UNCHANGED <<upstream, req, headers, outReq, bodyPolled, meta, sendResult, resp,
                 stream, log, now, harnessVars>>

\* the answer relayed without its event
UpstreamRespond_silent(r, st, wire, b, d) ==
  /\ pc[r] = "await"
  /\ now' = now + d
  /\ LET h == FromWire(wire)
     IN /\ sendResult' = [sendResult EXCEPT ![r] =
             Some([ok |-> TRUE, status |-> st, headers |-> h, body |-> b])]
        /\ resp' = [resp EXCEPT ![r] =
             Some([status |-> ResponseStatus(st), headers |-> OutHeaders(h),
                   body |-> [kind |-> "stream"]])]
  /\ stream' = [stream EXCEPT ![r] =
       Some([delivered |-> <<>>, state |-> "open", error |-> None])]
  /\ pc' = [pc EXCEPT ![r] = "relay"]
  /\ UNCHANGED <<upstream, req, headers, outReq, bodyPolled, meta, sends, log,
                 harnessVars>>

\* 142, 149-181: the upstream answered with status and headers after d ms:
\* one "proxied" event, then the response with the body as a stream
UpstreamRespond(r, st, wire, b, d) ==
  /\ pc[r] = "await"
  /\ now' = now + d
  /\ LET h == FromWire(wire)
     IN /\ sendResult' = [sendResult EXCEPT ![r] =
             Some([ok |-> TRUE, status |-> st, headers |-> h, body |-> b])]
        /\ log' = Append(log, ProxiedRecord(r, st, meta[r][1], HeaderText(h, ETAG),
                                            HeaderText(h, CONTENT_LENGTH), now'))
        /\ resp' = [resp EXCEPT ![r] =
             Some([status |-> ResponseStatus(st), headers |-> OutHeaders(h),
                   body |-> [kind |-> "stream"]])]
  /\ stream' = [stream EXCEPT ![r] =
       Some([delivered |-> <<>>, state |-> "open", error |-> None])]
  /\ pc' = [pc EXCEPT ![r] = "relay"]
  /\ UNCHANGED <<upstream, req, headers, outReq, bodyPolled, meta, sends, harnessVars>>

\* a failed send that is tried again
UpstreamFail_retry(r, e, d) ==
  /\ pc[r] = "await"
  /\ now' = now + d
  /\ sendResult' = [sendResult EXCEPT ![r] = Some([ok |-> FALSE, error |-> e])]
  /\ pc' = [pc EXCEPT ![r] = "send"]
  /\ UNCHANGED <<upstream, req, headers, outReq, bodyPolled, meta, sends, stream,
                 resp, log, harnessVars>>

\* a failed send whose timeouts are answered 504
UpstreamFail_504(r, e, d) ==
  /\ pc[r] = "await"
  /\ now' = now + d
  /\ sendResult' = [sendResult EXCEPT ![r] = Some([ok |-> FALSE, error |-> e])]
  /\ log' = Append(log, UpstreamErrorRecord(r, e, meta[r][1]))
  /\ resp' = [resp EXCEPT ![r] =
       Some(TextResponse(IF e \in {"connect_timeout", "timeout"} THEN 504
                         ELSE BAD_GATEWAY, "upstream error"))]
  /\ pc' = [pc EXCEPT ![r] = "done"]
  /\ UNCHANGED <<upstream, req, headers, outReq, bodyPolled, meta, sends, stream,
                 harnessVars>>

\* 143-146: send() failed after d ms: one "upstream_error" event, then 502
UpstreamFail(r, e, d) ==
  /\ pc[r] = "await"
  /\ now' = now + d
  /\ sendResult' = [sendResult EXCEPT ![r] = Some([ok |-> FALSE, error |-> e])]
  /\ log' = Append(log, UpstreamErrorRecord(r, e, meta[r][1]))
  /\ resp' = [resp EXCEPT ![r] = Some(TextResponse(BAD_GATEWAY, "upstream error"))]
  /\ pc' = [pc EXCEPT ![r] = "done"]
  /\ UNCHANGED <<upstream, req, headers, outReq, bodyPolled, meta, sends, stream,
                 harnessVars>>

\* 178-180: the next chunk of the upstream body goes to the client
RelayChunk(r) ==
  /\ pc[r] = "relay"
  /\ Len(stream[r][1].delivered) < Len(sendResult[r][1].body.chunks)
  /\ stream' = [stream EXCEPT ![r][1].delivered =
       Append(@, sendResult[r][1].body.chunks[Len(@) + 1])]
  /\ UNCHANGED <<upstream, pc, req, headers, outReq, bodyPolled, meta, sends, sendResult,
                 resp, log, now, harnessVars>>

\* the upstream body ends
RelayEnd(r) ==
  /\ pc[r] = "relay"
  /\ Len(stream[r][1].delivered) = Len(sendResult[r][1].body.chunks)
  /\ ~sendResult[r][1].body.err
  /\ stream' = [stream EXCEPT ![r][1].state = "complete"]
  /\ pc' = [pc EXCEPT ![r] = "done"]
  /\ UNCHANGED <<upstream, req, headers, outReq, bodyPolled, meta, sends, sendResult,
                 resp, log, now, harnessVars>>

\* a body failure that is logged as an upstream error
RelayError_logged(r) ==
  /\ pc[r] = "relay"
  /\ Len(stream[r][1].delivered) = Len(sendResult[r][1].body.chunks)
  /\ sendResult[r][1].body.err
  /\ stream' = [stream EXCEPT ![r][1].state = "io_error", ![r][1].error = Some("body")]
  /\ log' = Append(log, UpstreamErrorRecord(r, "body", meta[r][1]))
  /\ pc' = [pc EXCEPT ![r] = "done"]
  /\ UNCHANGED <<upstream, req, headers, outReq, bodyPolled, meta, sends, sendResult,
                 resp, now, harnessVars>>

\* 179: the upstream body fails: the error reaches the transport as io::Error
RelayError(r) ==
  /\ pc[r] = "relay"
  /\ Len(stream[r][1].delivered) = Len(sendResult[r][1].body.chunks)
  /\ sendResult[r][1].body.err
  /\ stream' = [stream EXCEPT ![r][1].state = "io_error", ![r][1].error = Some("body")]
  /\ pc' = [pc EXCEPT ![r] = "done"]
  /\ UNCHANGED <<upstream, req, headers, outReq, bodyPolled, meta, sends, sendResult,
                 resp, log, now, harnessVars>>

\* 82, 179: the total timeout of the client (60 s, from the start of the
\* request to the end of the response body) expires while the body is
\* relayed: bytes_stream yields the timeout error, which reaches the
\* transport as io::Error like any other body failure
RelayTimeout(r) ==
  /\ pc[r] = "relay"
  /\ stream' = [stream EXCEPT ![r][1].state = "io_error", ![r][1].error = Some("timeout")]
  /\ pc' = [pc EXCEPT ![r] = "done"]
  /\ UNCHANGED <<upstream, req, headers, outReq, bodyPolled, meta, sends, sendResult,
                 resp, log, now, harnessVars>>

\* the client goes away while the body is relayed: the stream is dropped
ClientGone(r) ==
  /\ pc[r] = "relay"
  /\ stream' = [stream EXCEPT ![r][1].state = "dropped"]
  /\ pc' = [pc EXCEPT ![r] = "done"]
  /\ UNCHANGED <<upstream, req, headers, outReq, bodyPolled, meta, sends, sendResult,
                 resp, log, now, harnessVars>>

\* ------------------------------------------------------------------------
\* Specifications
\* ------------------------------------------------------------------------

\* one request through the router and the handler, over all the inputs
Next ==
  \/ \E m \in Methods, p \in ReqPaths, q \in ReqQueries, w \in ReqHeaderBlocks,
        b \in ReqBodies : Arrive(1, m, p, q, w, b)
  \/ Healthz(1)
  \/ ProxyStart(1)
  \/ CollectStart(1)
  \/ BodyError(1)
  \/ Prepare(1)
  \/ Dispatch(1)
  \/ \E st \in UpStatuses, w \in UpHeaderBlocks, b \in UpBodies, d \in 0..MaxDelay :
        UpstreamRespond(1, st, w, b, d)
  \/ \E e \in SendErrors, d \in 0..MaxDelay : UpstreamFail(1, e, d)
  \/ RelayChunk(1)
  \/ RelayEnd(1)
  \/ RelayError(1)
  \/ RelayTimeout(1)
  \/ ClientGone(1)

Spec == Init /\ [][Next]_vars

\* ------------------------------------------------------------------------
\* Concurrent requests: the handlers of NumReqs requests run as tasks that
\* interleave at their await points and share AppState, the subscriber (the
\* log) and the clock
\* ------------------------------------------------------------------------

\* the requests that arrive: a probe, a download, an upload whose body
\* arrives and one whose body fails
ConcRequests ==
  {[method |-> "GET", path |-> PHealthz, body |-> [chunks |-> <<>>, err |-> FALSE]],
   [method |-> "GET", path |-> PSrcTar, body |-> [chunks |-> <<>>, err |-> FALSE]],
   [method |-> "POST", path |-> PSrcTar, body |-> [chunks |-> <<<<1>>>>, err |-> FALSE]],
   [method |-> "POST", path |-> PSrcTar, body |-> [chunks |-> <<<<1>>>>, err |-> TRUE]]}
ConcHeaderBlocks ==
  {<<<<Cap(HOST), "proxy.test">>, <<Cap(USER_AGENT), "R/4.3">>, <<ACCEPT, "*/*">>>>}
ConcUpHeaderBlocks ==
  {<<<<ETagWire, "\"v1\"">>, <<Cap(CONTENT_LENGTH), "3">>, <<Cap(CONNECTION), "close">>>>}
ConcUpBodies == {[chunks |-> <<>>, err |-> FALSE], [chunks |-> <<<<7>>>>, err |-> TRUE]}

NextConc ==
  \E r \in Reqs :
    \/ \E q \in ConcRequests, w \in ConcHeaderBlocks :
          Arrive(r, q.method, q.path, None, w, q.body)
    \/ Healthz(r)
    \/ ProxyStart(r)
    \/ CollectStart(r)
    \/ BodyError(r)
    \/ Prepare(r)
    \/ Dispatch(r)
    \/ \E w \in ConcUpHeaderBlocks, b \in ConcUpBodies, d \in 0..MaxDelay :
          UpstreamRespond(r, OK, w, b, d)
    \/ \E d \in 0..MaxDelay : UpstreamFail(r, "connect_refused", d)
    \/ RelayChunk(r)
    \/ RelayEnd(r)
    \/ RelayError(r)
    \/ RelayTimeout(r)
    \/ ClientGone(r)

\* the server runs with UPSTREAM_BASE=http://mirror.test:8080/cran/?k
InitConc == Init /\ upstream = OtherUpstream

SpecConc == InitConc /\ [][NextConc]_vars

\* ------------------------------------------------------------------------
\* parse_cran on its own: every path of a bounded set is classified
\* ------------------------------------------------------------------------

\* U+0663 ARABIC-INDIC DIGIT THREE
ArabicIndicThree == 1635

\* U+16130 KIRAT RAI DIGIT ZERO
KiratRaiZero == 90416

CranPrefixes ==
  {<<>>,
   S(<<"/", "s", "r", "c", "/", "c", "o", "n", "t", "r", "i", "b", "/">>),
   S(<<"/", "s", "r", "c", "/", "c", "o", "n", "t", "r", "i", "b", "/",
     "A", "r", "c", "h", "i", "v", "e", "/">>),
   S(<<"/", "s", "r", "c", "/", "c", "o", "n", "t", "r", "i", "b", "/",
     "A", "r", "c", "h", "i", "v", "e", "/", "p", "k", "/">>),
   S(<<"/", "b", "i", "n", "/", "w", "i", "n", "d", "o", "w", "s", "/",
     "c", "o", "n", "t", "r", "i", "b", "/", "4", ".", "3", "/">>),
   S(<<"/", "b", "i", "n", "/", "w", "i", "n", "d", "o", "w", "s", "/",
     "c", "o", "n", "t", "r", "i", "b", "/", "4", "3", "/">>),
   S(<<"/", "b", "i", "n", "/", "w", "i", "n", "d", "o", "w", "s", "/",
     "c", "o", "n", "t", "r", "i", "b", "/">>) \o <<ArabicIndicThree>>
     \o S(<<".", "3", "/">>),
   S(<<"/", "b", "i", "n", "/", "m", "a", "c", "o", "s", "x", "/",
     "c", "o", "n", "t", "r", "i", "b", "/", "4", ".", "3", "/">>),
   S(<<"/", "b", "i", "n", "/", "m", "a", "c", "o", "s", "x", "/", "x", "/",
     "c", "o", "n", "t", "r", "i", "b", "/", "4", ".", "3", "/">>),
   S(<<"/", "b", "i", "n", "/", "m", "a", "c", "o", "s", "x", "/",
     "c", "o", "n", "t", "r", "i", "b", "/">>) \o <<KiratRaiZero>>
     \o S(<<".", "3", "/">>),
   S(<<"/", "b", "i", "n", "/", "m", "a", "c", "o", "s", "x", "/">>) \o <<LineFeed>>
     \o S(<<"/", "c", "o", "n", "t", "r", "i", "b", "/", "4", ".", "3", "/">>),
   S(<<"/", "b", "i", "n", "/", "m", "a", "c", "o", "s", "x", "/", "x", "/",
     "c", "o", "n", "t", "r", "i", "b", "/", "4", ".", "3", "/",
     "c", "o", "n", "t", "r", "i", "b", "/", "4", ".", "4", "/">>),
   S(<<"/", "b", "i", "n", "/", "l", "i", "n", "u", "x", "/",
     "c", "o", "n", "t", "r", "i", "b", "/", "4", ".", "3", "/">>),
   S(<<"/", "x", "/", "s", "r", "c", "/", "c", "o", "n", "t", "r", "i", "b", "/">>)}

CranTokens ==
  {S(<<"a">>), S(<<"_">>), S(<<"/">>), S(<<".">>), S(<<"a", "_", "1">>),
   S(<<"P", "A", "C", "K", "A", "G", "E", "S">>)}

CranSuffixes ==
  {<<>>, S(<<".", "t", "a", "r", ".", "g", "z">>), S(<<".", "z", "i", "p">>),
   S(<<".", "t", "g", "z">>), S(<<".", "g", "z">>), S(<<".", "r", "d", "s">>)}

\* a prefix, up to MaxMid tokens, a suffix
CranPaths ==
  {pre \o Concat(mid) \o suf :
     pre \in CranPrefixes,
     mid \in UNION {[1..n -> CranTokens] : n \in 0..MaxMid},
     suf \in CranSuffixes}

InitCran ==
  /\ PipelineInit
  /\ upstream = DefaultUpstream
  /\ cranPath \in CranPaths
  /\ cranOut = None
  /\ hdrWire = <<>>
  /\ hdrOut = None

Classify ==
  /\ cranOut = None
  /\ cranOut' = Some(parse_cran(cranPath))
  /\ UNCHANGED <<upstream, pc, req, headers, outReq, bodyPolled, meta, sends,
                 sendResult, resp, stream, log, now, cranPath, hdrWire, hdrOut>>

NextCran == Classify

SpecCran == InitCran /\ [][NextCran]_vars

\* ------------------------------------------------------------------------
\* strip_hop_headers on its own: every header block of a bounded set
\* ------------------------------------------------------------------------

HdrLines ==
  {<<n, "1">> : n \in {CONNECTION, PROXY_CONNECTION, KEEP_ALIVE,
                       TRANSFER_ENCODING, TE, UPGRADE, TRAILER, HOST,
                       Cap(HOST), Upper(TE),
                       Cap(PROXY_CONNECTION)}}
  \cup {<<n, v>> : n \in {ACCEPT, Cap(SET_COOKIE), X_A}, v \in {"1", "2"}}

HdrBlocks == UNION {[1..n -> HdrLines] : n \in 0..MaxHdrLines}

InitHdr ==
  /\ PipelineInit
  /\ upstream = DefaultUpstream
  /\ cranPath = <<>>
  /\ cranOut = None
  /\ hdrWire \in HdrBlocks
  /\ hdrOut = None

Sanitize ==
  /\ hdrOut = None
  /\ hdrOut' = Some(strip_hop_headers(FromWire(hdrWire)))
  /\ UNCHANGED <<upstream, pc, req, headers, outReq, bodyPolled, meta, sends,
                 sendResult, resp, stream, log, now, cranPath, cranOut, hdrWire>>

NextHdr == Sanitize

SpecHdr == InitHdr /\ [][NextHdr]_vars

\* ------------------------------------------------------------------------
\* Properties of strip_hop_headers (under SpecHdr)
\* ------------------------------------------------------------------------

DeniedNames ==
  {CONNECTION, PROXY_CONNECTION, KEEP_ALIVE, TRANSFER_ENCODING, TE,
   UPGRADE, TRAILER, HOST}

\* the lines of a block whose name, in any casing, is not denied
KeptLines(wire) == SelectSeq(wire, LAMBDA l : Lower(l[1]) \notin DeniedNames)
\* the values a block gives for a lower-case name, in wire order
WireValues(wire, name) ==
  LET ls == SelectSeq(wire, LAMBDA l : Lower(l[1]) = name)
  IN [i \in 1..Len(ls) |-> ls[i][2]]
WireNames(wire) == {Lower(wire[i][1]) : i \in 1..Len(wire)}
MapNames(map) == {map[i].name : i \in 1..Len(map)}
MapValues(map, name) == IF HasName(map, name) THEN map[IndexOf(map, name)].values ELSE <<>>

\* C4, as claimed: after sanitization no denied name is left, and the
\* headers of every other name are all still there with the same values,
\* the same multiplicity and in the same relative order; nothing is added.
C4_SanitizedInOrder ==
  hdrOut # None =>
    /\ MapNames(hdrOut[1]) \cap DeniedNames = {}
    /\ HeaderIter(hdrOut[1]) = HeaderIter(FromWire(KeptLines(hdrWire)))

\* C4, amended: after sanitization no denied name is left, the names left
\* are exactly the other names of the input, each once, and each keeps all
\* its values in their order; the order of the names among themselves is
\* not kept.
C4_Sanitized ==
  hdrOut # None =>
    /\ MapNames(hdrOut[1]) \cap DeniedNames = {}
    /\ MapNames(hdrOut[1]) = WireNames(hdrWire) \ DeniedNames
    /\ Len(hdrOut[1]) = Cardinality(MapNames(hdrOut[1]))
    /\ \A n \in MapNames(hdrOut[1]) : MapValues(hdrOut[1], n) = WireValues(hdrWire, n)

\* a block with a denied name in upper case, a denied name in lower case
\* and another name has been sanitized, and the other name is left
C4_Witness ==
  /\ hdrOut # None
  /\ \E i \in 1..Len(hdrWire) : hdrWire[i][1] = Cap(HOST)
  /\ \E i \in 1..Len(hdrWire) : hdrWire[i][1] = CONNECTION
  /\ Len(hdrWire) = MaxHdrLines
  /\ \E n \in MapNames(hdrOut[1]) : Len(MapValues(hdrOut[1], n)) >= 1

\* ------------------------------------------------------------------------
\* Properties of parse_cran (under SpecCran)
\* ------------------------------------------------------------------------

RuleTypes ==
  <<"src_tar", "archive_tar", "win_zip", "mac_tgz", "index_rds", "index_gz",
    "index_text">>
\* the patterns in the order parse_cran tries them
Rules == <<RE_SRC, RE_ARCH, RE_WIN, RE_MAC, RE_IDX_RDS, RE_IDX_GZ, RE_IDX_TXT>>
Matching(path) == {i \in 1..Len(Rules) : IsMatch(Rules[i], path)}
Lowest(set) == CHOOSE i \in set : \A j \in set : i <= j

\* C7: parse_cran answers every path, the empty one included, with the type
\* of the lowest-numbered rule that matches it, and with "unknown" and the
\* four optional fields empty when no rule matches.
C7_FirstMatch ==
  cranOut # None =>
    LET m == Matching(cranPath)
    IN /\ cranOut[1].artifact_type \in {RuleTypes[i] : i \in 1..7} \cup {"unknown"}
       /\ m # {} => cranOut[1].artifact_type = RuleTypes[Lowest(m)]
       /\ m = {} =>
            /\ cranOut[1].artifact_type = "unknown"
            /\ cranOut[1].package = None /\ cranOut[1].version = None
            /\ cranOut[1].r_minor = None /\ cranOut[1].os = None

\* the first rule does not match, a later one does, and the path is classified
C7_Witness ==
  /\ cranOut # None
  /\ cranOut[1].artifact_type = "index_gz"
  /\ Matching(cranPath) = {6}

\* C8: no path matches two of the seven patterns, so the type parse_cran
\* returns is the type of every rule that matches, whatever the order.
C8_Disjoint ==
  cranOut # None =>
    /\ Cardinality(Matching(cranPath)) <= 1
    /\ \A i \in Matching(cranPath) : cranOut[1].artifact_type = RuleTypes[i]

\* a path under /bin/macosx/ with two /contrib/<minor>/ parts is classified
C8_Witness ==
  /\ cranOut # None
  /\ cranOut[1].artifact_type = "mac_tgz"
  /\ cranOut[1].r_minor = Some(S(<<"4", ".", "4">>))

IsSome(o) == Len(o) = 1

\* C9: the artifact_type decides which optional fields are set: package and
\* version for src_tar and archive_tar; r_minor, package, version and the os
\* ("windows", "macos") for win_zip and mac_tgz; none for the index types and
\* unknown.
C9_FieldsByType ==
  cranOut # None =>
    LET o == cranOut[1]
        ty == o.artifact_type
    IN /\ ty \in {"src_tar", "archive_tar"} =>
            /\ IsSome(o.package) /\ IsSome(o.version)
            /\ o.r_minor = None /\ o.os = None
       /\ ty = "win_zip" =>
            /\ IsSome(o.r_minor) /\ IsSome(o.package) /\ IsSome(o.version)
            /\ o.os = Some(S(<<"w", "i", "n", "d", "o", "w", "s">>))
       /\ ty = "mac_tgz" =>
            /\ IsSome(o.r_minor) /\ IsSome(o.package) /\ IsSome(o.version)
            /\ o.os = Some(S(<<"m", "a", "c", "o", "s">>))
       /\ ty \in {"index_rds", "index_gz", "index_text", "unknown"} =>
            /\ o.package = None /\ o.version = None
            /\ o.r_minor = None /\ o.os = None

\* a windows binary with its three captures has been classified
C9_Witness ==
  /\ cranOut # None
  /\ cranOut[1].artifact_type = "win_zip"
  /\ cranOut[1].r_minor = Some(S(<<"4", ".", "3">>))
  /\ cranOut[1].package = Some(S(<<"a">>))
  /\ cranOut[1].version = Some(S(<<"1", ".">>))

\* ------------------------------------------------------------------------
\* Properties of the router and of proxy (under Spec)
\* ------------------------------------------------------------------------

HealthzPath == S(<<"/", "h", "e", "a", "l", "t", "h", "z">>)
\* the request was handed to proxy, the fallback handler
Proxied(r) == req[r] # None /\ req[r][1].path # HealthzPath
\* the events a request emitted, in order
RecordsOf(r) == SelectSeq(log, LAMBDA e : e.req = r)
\* send() returned an error for the request
SendFailed(r) == sendResult[r] # None /\ ~sendResult[r][1].ok
\* send() returned a response for the request
SendAnswered(r) == sendResult[r] # None /\ sendResult[r][1].ok
\* the inbound body was polled and it is one whose read fails
BodyUnreadable(r) == req[r] # None /\ bodyPolled[r] /\ req[r][1].body.err

\* C1, as claimed: when the handler has returned, whatever the outcome, the
\* request has emitted exactly one log record.
C1_ExactlyOneRecord ==
  \A r \in Reqs : (Proxied(r) /\ resp[r] # None) => Len(RecordsOf(r)) = 1

\* C2: when send() fails the client gets 502 and the request has emitted
\* exactly one record, "upstream_error" with the error, the path and the
\* user-agent and without status or latency, and no "proxied" record.
C2_TransportFailure ==
  \A r \in Reqs : SendFailed(r) =>
    /\ resp[r] # None /\ resp[r][1].status = 502
    /\ Len(RecordsOf(r)) = 1
    /\ LET e == RecordsOf(r)[1]
       IN /\ e.message = "upstream_error"
          /\ DOMAIN e = {"req", "level", "message", "error", "path", "ua"}
          /\ e.error = sendResult[r][1].error
          /\ e.path = req[r][1].path
          /\ e.ua = HeaderText(req[r][1].headers, USER_AGENT)

\* the upstream refused the connection and the handler has returned
C2_Witness ==
  \E r \in Reqs :
    /\ SendFailed(r) /\ sendResult[r][1].error = "connect_refused"
    /\ pc[r] = "done"
    /\ RecordsOf(r)[1].ua = "R/4.3"

\* C3: the status proxy returns is 400 when reading the inbound body failed,
\* 502 when send() failed, and the upstream's own status in every other
\* case, 4xx and 5xx included; proxy returns in no other way.
C3_Status ==
  \A r \in Reqs : Proxied(r) =>
    /\ pc[r] = "done" => resp[r] # None
    /\ resp[r] # None =>
         /\ BodyUnreadable(r) \/ SendFailed(r) \/ SendAnswered(r)
         /\ BodyUnreadable(r) => resp[r][1].status = 400
         /\ SendFailed(r) => resp[r][1].status = 502
         /\ SendAnswered(r) => resp[r][1].status = sendResult[r][1].status

\* the upstream answered 404 and the client was given 404
C3_Witness ==
  \E r \in Reqs :
    /\ SendAnswered(r) /\ sendResult[r][1].status = 404
    /\ resp[r] # None /\ resp[r][1].status = 404

\* C5, as claimed: the response for the client has the upstream's status
\* and, for every upstream header name that is not denied, all the values
\* the upstream sent for it.
C5_AllHeaderValues ==
  \A r \in Reqs : (SendAnswered(r) /\ resp[r] # None) =>
    /\ resp[r][1].status = sendResult[r][1].status
    /\ \A n \in MapNames(sendResult[r][1].headers) \ DeniedNames :
         MapValues(resp[r][1].headers, n) = MapValues(sendResult[r][1].headers, n)

RECURSIVE BytesOf(_)
\* the bytes of a body, chunk after chunk
BytesOf(chunks) ==
  IF chunks = <<>> THEN <<>>
  ELSE BytesOf(SubSeq(chunks, 1, Len(chunks) - 1)) \o chunks[Len(chunks)]

\* C6: for GET and HEAD the inbound body is never read and the upstream
\* request has no body; for any other method the request sent upstream has
\* exactly the bytes of the inbound body, read in full before the send.
C6_BodyPolicy ==
  \A r \in Reqs : req[r] # None =>
    /\ req[r][1].method \in {"GET", "HEAD"} =>
         /\ ~bodyPolled[r]
         /\ outReq[r] # None => outReq[r][1].body = None
    /\ (req[r][1].method \notin {"GET", "HEAD"} /\ sends[r] > 0) =>
         /\ bodyPolled[r]
         /\ outReq[r][1].body = Some(BytesOf(req[r][1].body.chunks))

\* a HEAD request that came with a body was sent upstream without one, and
\* the upstream answered
C6_Witness ==
  \E r \in Reqs :
    /\ req[r] # None /\ req[r][1].method = "HEAD"
    /\ req[r][1].body.chunks # <<>>
    /\ SendAnswered(r)
    /\ outReq[r][1].body = None

\* C10: a request for /healthz, whatever its method, is answered 200 "ok"
\* and never enters proxy: no request is built for it, nothing is sent, its
\* path is not classified and no record is emitted.
C10_Liveness ==
  \A r \in Reqs : (req[r] # None /\ req[r][1].path = HealthzPath) =>
    /\ pc[r] \in {"routing", "done"}
    /\ headers[r] = None /\ outReq[r] = None /\ meta[r] = None
    /\ sends[r] = 0 /\ sendResult[r] = None
    /\ RecordsOf(r) = <<>>
    /\ pc[r] = "done" =>
         /\ resp[r] # None
         /\ resp[r][1].status = 200
         /\ resp[r][1].body = [kind |-> "full", text |-> "ok"]

\* POST /healthz has been answered
C10_Witness ==
  \E r \in Reqs :
    /\ req[r] # None /\ req[r][1].path = HealthzPath /\ req[r][1].method = "POST"
    /\ pc[r] = "done" /\ resp[r] # None

\* C11: forwarding is single-attempt. At most one upstream request is ever
\* dispatched for an inbound request; a failed send ends the request with
\* that one dispatch, and no step after an outcome of send() dispatches
\* again.
C11_SingleAttempt ==
  /\ [](\A r \in Reqs :
         /\ sends[r] <= 1
         /\ sendResult[r] # None => sends[r] = 1
         /\ SendFailed(r) => pc[r] = "done")
  /\ [][\A r \in Reqs : sendResult[r] # None => sends'[r] = sends[r]]_vars

\* a send failed and the request has ended with its single dispatch
C11_Witness ==
  \E r \in Reqs : SendFailed(r) /\ pc[r] = "done" /\ sends[r] = 1

\* the "proxied" events of a request
ProxiedOf(r) == SelectSeq(RecordsOf(r), LAMBDA e : e.message = "proxied")

\* C12: on the success path the "proxied" record is emitted when the status
\* and headers of the upstream have been received and before any chunk of
\* the body is relayed: from the moment the body stream exists the request
\* has its one record, carrying the received status, and no relay step, be
\* it a chunk, the end, a failure or the client going away, adds or removes
\* a record.
C12_RecordBeforeBody ==
  /\ [](\A r \in Reqs :
         /\ ProxiedOf(r) # <<>> => SendAnswered(r)
         /\ stream[r] # None =>
              /\ SendAnswered(r)
              /\ Len(RecordsOf(r)) = 1
              /\ ProxiedOf(r) = RecordsOf(r)
              /\ RecordsOf(r)[1].status = sendResult[r][1].status)
  /\ [][\A r \in Reqs : stream[r] # None => RecordsOf(r)' = RecordsOf(r)]_vars

\* a body stream failed after a chunk had been relayed, and the request has
\* its record
C12_Witness ==
  \E r \in Reqs :
    /\ stream[r] # None
    /\ stream[r][1].state = "io_error"
    /\ stream[r][1].delivered # <<>>
    /\ Len(ProxiedOf(r)) = 1

\* C13: the sanitizer acts in both directions of every proxied request. The
\* request built for the upstream carries none of the 8 denied names of the
\* client's request and all its other names; the response returned for an
\* upstream answer carries none of the 8 denied names of the upstream's
\* response and all its other names.
C13_BothDirections ==
  \A r \in Reqs :
    /\ outReq[r] # None =>
         MapNames(outReq[r][1].headers) = MapNames(req[r][1].headers) \ DeniedNames
    /\ (SendAnswered(r) /\ resp[r] # None) =>
         MapNames(resp[r][1].headers) =
           MapNames(sendResult[r][1].headers) \ DeniedNames

\* a request that came with Host and Connection was sent, and an answer that
\* came with Transfer-Encoding was returned
C13_Witness ==
  \E r \in Reqs :
    /\ SendAnswered(r) /\ resp[r] # None
    /\ {HOST, CONNECTION} \subseteq MapNames(req[r][1].headers)
    /\ TRANSFER_ENCODING \in MapNames(sendResult[r][1].headers)
    /\ MapNames(resp[r][1].headers) # {}

\* a token that is not empty and has no "/" in it
OneSegment(tok) == tok # <<>> /\ \A i \in 1..Len(tok) : tok[i] # Slash

\* C14, as claimed: for every path classified src_tar, archive_tar, win_zip
\* or mac_tgz the captured package and the captured version are each
\* non-empty and without "/".
C14_SingleSegment ==
  (cranOut # None /\
   cranOut[1].artifact_type \in {"src_tar", "archive_tar", "win_zip", "mac_tgz"}) =>
    /\ IsSome(cranOut[1].package) /\ OneSegment(cranOut[1].package[1])
    /\ IsSome(cranOut[1].version) /\ OneSegment(cranOut[1].version[1])

\* the body stream of the request has failed
RelayFailed(r) == stream[r] # None /\ stream[r][1].state = "io_error"

\* C15: a failure while the response body is relayed happens after the
\* status and headers were committed: the step that fails the stream leaves
\* the response (status and headers) and the records of the request as they
\* were, and a request whose stream has failed has the status the upstream
\* gave, a stream ended by an I/O error, and one record, the "proxied" one.
C15_RelayFailure ==
  /\ [](\A r \in Reqs : RelayFailed(r) =>
         /\ pc[r] = "done"
         /\ stream[r][1].error # None
         /\ resp[r] # None
         /\ resp[r][1].status = sendResult[r][1].status
         /\ Len(RecordsOf(r)) = 1
         /\ RecordsOf(r)[1].message = "proxied")
  /\ [][\A r \in Reqs : (~RelayFailed(r) /\ RelayFailed(r)') =>
         /\ resp[r] # None
         /\ resp'[r] = resp[r]
         /\ RecordsOf(r)' = RecordsOf(r)]_vars

\* the body of a 404 answer failed after its one chunk
C15_Witness ==
  \E r \in Reqs :
    /\ RelayFailed(r)
    /\ stream[r][1].error = Some("body")
    /\ stream[r][1].delivered # <<>>
    /\ resp[r][1].status = 404

\* the order of the steps of one request, with the three early returns
StepOrder ==
  {<<"idle", "routing">>, <<"routing", "body">>, <<"body", "collect">>,
   <<"body", "send">>, <<"collect", "send">>,
   <<"send", "await">>, <<"await", "relay">>, <<"relay", "done">>,
   <<"routing", "done">>, <<"collect", "done">>, <<"await", "done">>}

\* the inbound body has been buffered in full into the outbound request
Buffered(r) ==
  /\ bodyPolled[r]
  /\ outReq[r][1].body = Some(BytesOf(req[r][1].body.chunks))

\* C16: the steps of one request occur in a fixed order, each after the
\* previous one has finished: the outbound headers are sanitized before the
\* inbound body is read, the body (non-GET/HEAD) is buffered in full before
\* the send, the send precedes the receipt of status and headers, and the
\* receipt precedes the relay of the response body.
C16_StepOrder ==
  /\ [](\A r \in Reqs :
         /\ bodyPolled[r] =>
              /\ headers[r] # None /\ outReq[r] # None
              /\ MapNames(outReq[r][1].headers) \cap DeniedNames = {}
         /\ sends[r] > 0 =>
              /\ outReq[r] # None
              /\ req[r][1].method \notin {"GET", "HEAD"} => Buffered(r)
         /\ sendResult[r] # None => sends[r] > 0
         /\ stream[r] # None => SendAnswered(r)
         /\ pc[r] \in {"idle", "routing", "body"} => ~bodyPolled[r]
         /\ pc[r] = "collect" => bodyPolled[r] /\ outReq[r][1].body = None
         /\ pc[r] \in {"idle", "routing", "body", "collect", "send"} =>
              sends[r] = 0 /\ sendResult[r] = None /\ stream[r] = None
         /\ pc[r] = "await" => sendResult[r] = None /\ stream[r] = None)
  /\ [][\A r \in Reqs : pc'[r] # pc[r] => <<pc[r], pc'[r]>> \in StepOrder]_vars

\* a POST went through every step: its two-chunk body was buffered and sent,
\* the answer came, and a chunk of the response body has been relayed
C16_Witness ==
  \E r \in Reqs :
    /\ pc[r] = "relay"
    /\ req[r][1].method = "POST"
    /\ Len(req[r][1].body.chunks) = 2
    /\ Buffered(r)
    /\ stream[r][1].delivered # <<>>

\* the errors of send() that are an expired timeout (main.rs 80, 82)
Timeouts == {"connect_timeout", "timeout"}
\* send() failed with an expired timeout
SendTimedOut(r) == SendFailed(r) /\ sendResult[r][1].error \in Timeouts
\* the total timeout expired while the response body was relayed
RelayTimedOut(r) == RelayFailed(r) /\ stream[r][1].error = Some("timeout")
\* what a failed send leaves: 502 with its text, one warn record, one send
FailedAsTransport(r) ==
  /\ resp[r] = Some(TextResponse(502, "upstream error"))
  /\ Len(RecordsOf(r)) = 1
  /\ RecordsOf(r)[1].message = "upstream_error"
  /\ RecordsOf(r)[1].level = "WARN"
  /\ sends[r] = 1

\* C17, as claimed: whenever the connect timeout or the overall request
\* timeout of the outbound call has expired, the client receives 502, one
\* "upstream_error" record is emitted and no retry is made.
C17_TimeoutIs502 ==
  \A r \in Reqs : (SendTimedOut(r) \/ RelayTimedOut(r)) => FailedAsTransport(r)

\* C17, amended: a timeout that expires while send() is awaited is treated
\* as any other failure of send(): 502, one "upstream_error" record that
\* differs from another failure's only in the error text, one send. The
\* overall timeout that expires while the body is relayed fails the body
\* stream: the client keeps the status of the upstream, the record is the
\* "proxied" one, there is no "upstream_error" record, and still one send.
C17_Timeouts ==
  \A r \in Reqs :
    /\ SendTimedOut(r) =>
         /\ pc[r] = "done"
         /\ FailedAsTransport(r)
         /\ [RecordsOf(r)[1] EXCEPT !.error = "dns"] =
              UpstreamErrorRecord(r, "dns", meta[r][1])
    /\ RelayTimedOut(r) =>
         /\ resp[r][1].status = sendResult[r][1].status
         /\ Len(RecordsOf(r)) = 1
         /\ RecordsOf(r)[1].message = "proxied"
         /\ sends[r] = 1

\* the overall timeout expired during send(), and the request has ended
C17_Witness ==
  \E r \in Reqs :
    /\ SendFailed(r) /\ sendResult[r][1].error = "timeout"
    /\ pc[r] = "done" /\ resp[r] # None /\ resp[r][1].status = 502

\* a path that set_path stores as it is: no "." or ".." segment, no
\* backslash, no character of the path percent-encode set
PlainPath(path) ==
  /\ path # <<>> /\ Head(path) = Slash
  /\ \A i \in 1..Len(path) :
       ~ControlOrNonAscii(path[i]) /\ path[i] \notin PathSet \cup {Backslash}
  /\ \A i \in 1..Len(SplitSlash(Tail(path))) :
       SplitSlash(Tail(path))[i] \notin SingleDot \cup DoubleDot
\* a query that set_query stores as it is
PlainQuery(query) ==
  query # None =>
    \A i \in 1..Len(query[1]) :
      ~ControlOrNonAscii(query[1][i]) /\ query[1][i] \notin SpecialQuerySet

Returned400(r) == resp[r] = Some(TextResponse(400, "invalid request body"))

\* the handler waits at the await of body.collect() for a body that fails
AwaitsFailingBody(r) == pc[r] = "collect" /\ req[r][1].body.err

\* C20: when reading the inbound body fails the handler returns 400 and
\* nothing else happens. A handler that has polled a body whose read fails
\* is either still waiting for it or has returned that 400, and in both
\* cases nothing is sent, the path is not classified, the timer is not
\* started and the request has no record; the one step such a waiting
\* handler takes is the return of the 400, which changes none of these; the
\* 400 comes only from a failed read, hence only for methods other than GET
\* and HEAD.
C20_BodyReadFails ==
  /\ [](\A r \in Reqs :
         /\ BodyUnreadable(r) =>
              /\ AwaitsFailingBody(r) \/ (pc[r] = "done" /\ Returned400(r))
              /\ AwaitsFailingBody(r) => resp[r] = None
              /\ sends[r] = 0 /\ sendResult[r] = None /\ stream[r] = None
              /\ meta[r] = None
              /\ RecordsOf(r) = <<>>
         /\ Returned400(r) =>
              /\ BodyUnreadable(r)
              /\ pc[r] = "done"
              /\ req[r][1].method \notin {"GET", "HEAD"}
              /\ outReq[r] # None /\ outReq[r][1].body = None)
  /\ [][\A r \in Reqs : (AwaitsFailingBody(r) /\ pc'[r] # pc[r]) =>
         /\ pc'[r] = "done"
         /\ Returned400(r)'
         /\ sends'[r] = 0 /\ sendResult'[r] = None /\ meta'[r] = None
         /\ log' = log /\ now' = now]_vars

\* a POST for a package path whose body failed after a chunk was answered
\* 400
C20_Witness ==
  \E r \in Reqs :
    /\ Returned400(r)
    /\ pc[r] = "done" /\ bodyPolled[r]
    /\ req[r][1].method = "POST" /\ req[r][1].path = PSrcTar
    /\ req[r][1].body.chunks # <<>>

\* everything a request owns
Local(r) ==
  <<pc[r], req[r], headers[r], outReq[r], bodyPolled[r], meta[r], sends[r],
    sendResult[r], resp[r], stream[r]>>

\* the metadata of a request, from its own inputs, the timer apart
OwnMeta(r) ==
  LET q == req[r][1]
      h == strip_hop_headers(q.headers)
  IN [started |-> 0, ua |-> HeaderText(h, USER_AGENT),
      range |-> HeaderText(h, RANGE), path |-> q.path,
      derived |-> parse_cran(q.path)]

\* the response a request gets when it runs alone, from its own inputs and
\* the outcome of its own send
AloneResponse(r) ==
  LET q == req[r][1]
  IN IF q.path = HealthzPath THEN TextResponse(200, "ok")
     ELSE IF q.method \notin {"GET", "HEAD"} /\ q.body.err
     THEN TextResponse(400, "invalid request body")
     ELSE IF SendFailed(r) THEN TextResponse(502, "upstream error")
     ELSE [status |-> sendResult[r][1].status,
           headers |-> OutHeaders(sendResult[r][1].headers),
           body |-> [kind |-> "stream"]]

\* the records a request emits when it runs alone, the latency set to 0
AloneRecords(r) ==
  LET q == req[r][1]
  IN IF q.path = HealthzPath \/ (q.method \notin {"GET", "HEAD"} /\ q.body.err)
     THEN <<>>
     ELSE IF SendFailed(r)
     THEN <<UpstreamErrorRecord(r, sendResult[r][1].error, OwnMeta(r))>>
     ELSE <<ProxiedRecord(r, sendResult[r][1].status, OwnMeta(r),
                          HeaderText(sendResult[r][1].headers, ETAG),
                          HeaderText(sendResult[r][1].headers, CONTENT_LENGTH), 0)>>

\* a record with its measured latency, if it has one, set to 0
Untimed(rec) ==
  IF rec.message = "proxied" THEN [rec EXCEPT !.latency_ms = 0] ELSE rec

\* C18: concurrent requests are independent. Every step is the step of one
\* request: it leaves what the other requests own as it is, appends at most
\* one record, of the acting request, to the log, and never changes the
\* upstream base. A request that has ended has the response and the records
\* (the measured latency apart) that its own inputs and the outcome of its
\* own send give it alone, whatever the other requests did in between.
C18_Independent ==
  /\ [](\A r \in Reqs : pc[r] = "done" =>
         /\ resp[r] = Some(AloneResponse(r))
         /\ Len(RecordsOf(r)) = Len(AloneRecords(r))
         /\ \A i \in 1..Len(RecordsOf(r)) :
              /\ Untimed(RecordsOf(r)[i]) = AloneRecords(r)[i]
              /\ RecordsOf(r)[i].message = "proxied" => RecordsOf(r)[i].latency_ms >= 0)
  /\ [][/\ upstream' = upstream
        /\ \E r \in Reqs :
             /\ \A o \in Reqs \ {r} : Local(o)' = Local(o)
             /\ \/ log' = log
                \/ /\ Len(log') = Len(log) + 1
                   /\ SubSeq(log', 1, Len(log)) = log
                   /\ log'[Len(log')].req = r]_vars

\* two requests were in flight together: the first was answered by the
\* upstream and its record follows that of the second, whose send failed
\* while the first was waiting
C18_Witness ==
  /\ pc[1] = "done" /\ pc[2] = "done"
  /\ SendAnswered(1) /\ SendFailed(2)
  /\ req[1][1].method # req[2][1].method
  /\ log[1] = ListeningRecord
  /\ Len(log) = 3 /\ log[2].req = 2 /\ log[3].req = 1
  /\ log[3].latency_ms > 0

====
